---- MODULE Spec2Model ----
(***************************************************************************)
(* photolyze, analyze.py: extraction of Camera Raw editing metadata from   *)
(* the XMP tag of a TIFF file.                                             *)
(*                                                                         *)
(* An XML document is a sequence of nodes in document order (pre-order);   *)
(* node i is [ns, name, text, parent], parent = 0 for the root (node 1).   *)
(* A text of None is ElementTree's `elem.text is None`.                    *)
(***************************************************************************)
EXTENDS Integers, Sequences, FiniteSets, TLC

\* ---------------------------------------------------------------- bounds
MaxNodes == 5       \* nodes of a document handed to parse_xmp directly
MaxFileNodes == 4   \* nodes of a document stored in a file's XMP tag
MaxPages == 2       \* pages of a TIFF file
MaxTags == 2        \* tags of a page

\* ------------------------------------------------------------ values
None == "<None>"    \* Python's None where a string may stand

\* keys_to_extract, in the order of the list
keys_to_extract ==
  << "Version", "ProcessVersion", "WhiteBalance", "Temperature", "Tint",
     "Exposure", "Shadows", "Brightness", "Contrast", "Saturation",
     "Sharpness", "LuminanceSmoothing", "ColorNoiseReduction",
     "ChromaticAberrationR", "ChromaticAberrationB", "VignetteAmount",
     "ShadowTint", "RedHue", "RedSaturation", "GreenHue", "GreenSaturation",
     "BlueHue", "BlueSaturation", "FillLight", "Vibrance",
     "HighlightRecovery", "Clarity", "Defringe",
     "HueAdjustmentRed", "HueAdjustmentOrange", "HueAdjustmentYellow",
     "HueAdjustmentGreen", "HueAdjustmentAqua", "HueAdjustmentBlue",
     "HueAdjustmentPurple", "HueAdjustmentMagenta",
     "SaturationAdjustmentRed", "SaturationAdjustmentOrange",
     "SaturationAdjustmentYellow", "SaturationAdjustmentGreen",
     "SaturationAdjustmentAqua", "SaturationAdjustmentBlue",
     "SaturationAdjustmentPurple", "SaturationAdjustmentMagenta",
     "LuminanceAdjustmentRed", "LuminanceAdjustmentOrange",
     "LuminanceAdjustmentYellow", "LuminanceAdjustmentGreen",
     "LuminanceAdjustmentAqua", "LuminanceAdjustmentBlue",
     "LuminanceAdjustmentPurple", "LuminanceAdjustmentMagenta",
     "SplitToningShadowHue", "SplitToningShadowSaturation",
     "SplitToningHighlightHue", "SplitToningHighlightSaturation",
     "SplitToningBalance", "ParametricShadows", "ParametricDarks",
     "ParametricLights", "ParametricHighlights", "ParametricShadowSplit",
     "ParametricMidtoneSplit", "ParametricHighlightSplit", "SharpenRadius",
     "SharpenDetail", "SharpenEdgeMasking", "PostCropVignetteAmount",
     "GrainAmount", "LensProfileEnable", "LensManualDistortionAmount",
     "PerspectiveVertical", "PerspectiveHorizontal", "PerspectiveRotate",
     "PerspectiveScale", "ConvertToGrayscale", "ToneCurveName",
     "CameraProfile", "LensProfileSetup", "HasSettings", "HasCrop",
     "AlreadyApplied" >>

\* the namespace prefixes bound by ns
ns == {"rdf", "crs"}

\* --------------------------------------------------- ElementTree queries
\* a is i or an ancestor of i in the parent vector p
RECURSIVE IsAncOrSelf(_, _, _)
IsAncOrSelf(p, a, i) ==
  IF i = a THEN TRUE
  ELSE IF i = 0 THEN FALSE
  ELSE IsAncOrSelf(p, a, p[i])

Parents(d) == [i \in 1..Len(d) |-> d[i].parent]

\* the indices 1..n, as a sequence in document order
Iota(n) == [i \in 1..n |-> i]

Matches(d, i, pfx, name) == pfx \in ns /\ d[i].ns = pfx /\ d[i].name = name

\* elem.findall('.//pfx:name'): every proper descendant of n, document order
FindAllDescendants(d, n, pfx, name) ==
  LET hit(i) == /\ i # n
                /\ IsAncOrSelf(Parents(d), n, i)
                /\ Matches(d, i, pfx, name)
  IN SelectSeq(Iota(Len(d)), hit)

\* elem.find('pfx:name'): the first matching child of n, 0 when there is none
Find(d, n, pfx, name) ==
  LET kids == {i \in 1..Len(d) : d[i].parent = n /\ Matches(d, i, pfx, name)}
  IN IF kids = {} THEN 0
     ELSE CHOOSE i \in kids : \A j \in kids : i <= j

\* FindText as it would be if a child without text counted as no match
FindTextSkipEmpty(d, n, pfx, name, default) ==
  LET e == Find(d, n, pfx, name)
  IN IF e = 0 THEN default
     ELSE IF d[e].text = None THEN default ELSE d[e].text

\* elem.findtext('pfx:name', default): the text of the first matching child,
\* the empty string when that child has no text, default when none matches
FindText(d, n, pfx, name, default) ==
  LET e == Find(d, n, pfx, name)
  IN IF e = 0 THEN default
     ELSE IF d[e].text = None THEN "" ELSE d[e].text

\* ------------------------------------------------ the dict editing_params
\* a dict is the sequence of its <<key, value>> items in insertion order
DictKeys(m) == {m[i][1] : i \in 1..Len(m)}

DictHas(m, k) == k \in DictKeys(m)

DictGet(m, k) == m[CHOOSE i \in 1..Len(m) : m[i][1] = k][2]

\* DictSet as dict.setdefault: a key already present keeps its value
DictSetDefault(m, k, v) ==
  IF DictHas(m, k) THEN m ELSE Append(m, <<k, v>>)

\* m[k] = v: a new key is appended, an old key keeps its place
DictSet(m, k, v) ==
  IF DictHas(m, k)
  THEN [i \in 1..Len(m) |-> IF m[i][1] = k THEN <<k, v>> ELSE m[i]]
  ELSE Append(m, <<k, v>>)


\* ------------------------------------------------- parse_xmp, loop bodies
\* ExtractKeys without the allow-list: every crs: child of the description,
\* from node k on, is stored under its own name
RECURSIVE ExtractAnyCrs(_, _, _, _)
ExtractAnyCrs(d, desc, m, k) ==
  IF k > Len(d) THEN m
  ELSE ExtractAnyCrs(d, desc,
                     IF d[k].parent = desc /\ d[k].ns = "crs"
                     THEN DictSet(m, d[k].name,
                                  IF d[k].text = None THEN "" ELSE d[k].text)
                     ELSE m,
                     k + 1)

\* editing_params[key] = val, for the keys in turn
RECURSIVE StoreKeys(_, _, _, _)
StoreKeys(d, desc, m, keys) ==
  IF keys = <<>> THEN m
  ELSE StoreKeys(d, desc,
                 DictSet(m, Head(keys),
                         FindText(d, desc, "crs", Head(keys), None)),
                 Tail(keys))

\* for key in keys_to_extract, from the k-th key on: the inner loop over one
\* rdf:Description, which stores the keys whose val is not None
ExtractKeys(d, desc, m, k) ==
  LET found(key) == FindText(d, desc, "crs", key, None) # None
  IN StoreKeys(d, desc, m,
               SelectSeq(SubSeq(keys_to_extract, k, Len(keys_to_extract)),
                         found))

\* [li.text for li in li_elements if li.text is not None]
RECURSIVE LiTexts(_, _)
LiTexts(d, lis) ==
  IF lis = <<>> THEN <<>>
  ELSE IF d[Head(lis)].text # None
       THEN <<d[Head(lis)].text>> \o LiTexts(d, Tail(lis))
       ELSE LiTexts(d, Tail(lis))

\* ExtractToneCurve without `if tone_curve_values:`
ExtractToneCurveAlways(d, desc, m) ==
  LET tone_curve_elem == Find(d, desc, "crs", "ToneCurve")
  IN IF tone_curve_elem = 0 THEN m
     ELSE DictSet(m, "ToneCurve",
                  LiTexts(d, FindAllDescendants(d, tone_curve_elem,
                                                "rdf", "li")))

\* the special handling of ToneCurve for one rdf:Description
ExtractToneCurve(d, desc, m) ==
  LET tone_curve_elem == Find(d, desc, "crs", "ToneCurve")
  IN IF tone_curve_elem = 0 THEN m
     ELSE LET li_elements ==
                FindAllDescendants(d, tone_curve_elem, "rdf", "li")
              tone_curve_values == LiTexts(d, li_elements)
          IN IF tone_curve_values # <<>>
             THEN DictSet(m, "ToneCurve", tone_curve_values)
             ELSE m

\* root.findall('.//rdf:Description', ns)
FindDescriptions(d) == FindAllDescendants(d, 1, "rdf", "Description")

\* ------------------------------------------------------- Python values
PyNone == [none |-> TRUE, items |-> <<>>]
PyDict(m) == [none |-> FALSE, items |-> m]

\* Truthy as `if editing_metadata is not None:`
IsNotNone(v) == ~v.none

\* `if editing_metadata:`: None and the empty dict are false
Truthy(v) == ~v.none /\ v.items # <<>>

\* Catches as `except (OSError, tifffile.TiffFileError)`
CatchesOpenErrors(e) == e \in {"OSError", "TiffFileError"}

\* `except Exception`: the exception classes the handler catches
Catches(e) ==
  e \in {"OSError", "TiffFileError", "IndexError", "AttributeError"}

\* the value of a tag: bytes holding a document (wf) or ill-formed XML, or a
\* value that is no bytes object
NoData == [kind |-> "none", wf |-> FALSE, doc |-> <<>>]
NotBytes == [kind |-> "notbytes", wf |-> FALSE, doc |-> <<>>]
Malformed == [kind |-> "bytes", wf |-> FALSE, doc |-> <<>>]
XmlBytes(d) == [kind |-> "bytes", wf |-> TRUE, doc |-> d]

\* ------------------------------------------------------------- inputs
Texts == {None, "10", "25"}

\* the elements a document is drawn from
RootLabels ==
  { [ns |-> "rdf", name |-> "RDF", text |-> None],
    [ns |-> "rdf", name |-> "Description", text |-> None] }

NodeLabels ==
  { [ns |-> "rdf", name |-> "Description", text |-> None],
    [ns |-> "crs", name |-> "ToneCurve", text |-> None],
    [ns |-> "crs", name |-> "Unknown", text |-> None] }
  \cup { [ns |-> "crs", name |-> "Contrast", text |-> t] : t \in Texts }
  \cup { [ns |-> "rdf", name |-> "li", text |-> t] : t \in Texts }

\* the elements of a document stored in a file: a second allow-listed key
FileNodeLabels ==
  NodeLabels \cup { [ns |-> "crs", name |-> "Exposure", text |-> "10"] }

\* the elements that hold text only: they have no children
LeafNames == {"Contrast", "Exposure", "Unknown", "li"}

\* the parent vectors of the trees of n nodes listed in pre-order
Shapes(n) ==
  { p \in [1..n -> 0..(n - 1)] :
      /\ p[1] = 0
      /\ \A i \in 2..n : /\ p[i] >= 1
                         /\ p[i] < i
                         /\ IsAncOrSelf(p, p[i], i - 1) }

MkDoc(n, p, r, l) ==
  [i \in 1..n |-> [ns |-> IF i = 1 THEN r.ns ELSE l[i].ns,
                   name |-> IF i = 1 THEN r.name ELSE l[i].name,
                   text |-> IF i = 1 THEN r.text ELSE l[i].text,
                   parent |-> p[i]]]

LeavesAreLeaves(d) ==
  \A i \in 2..Len(d) : d[d[i].parent].name \notin LeafNames

\* the layouts of a file: per page, per tag, what the tag is
TagKinds == {"ImageWidth", "XMP-notbytes", "XMP-bytes"}

SeqsUpTo(S, max) == UNION { [1..n -> S] : n \in 0..max }

Layouts == SeqsUpTo(SeqsUpTo(TagKinds, MaxTags), MaxPages)

HasBytes(layout) ==
  \E i \in 1..Len(layout) : \E j \in 1..Len(layout[i]) :
    layout[i][j] = "XMP-bytes"

\* the file of a layout whose XMP-bytes tags hold the payload
MkTag(kind, payload) ==
  IF kind = "ImageWidth" THEN [name |-> "ImageWidth", value |-> NotBytes]
  ELSE IF kind = "XMP-notbytes" THEN [name |-> "XMP", value |-> NotBytes]
  ELSE [name |-> "XMP", value |-> payload]

MkFile(layout, payload) ==
  [openable |-> TRUE,
   pages |-> [i \in 1..Len(layout) |->
                [j \in 1..Len(layout[i]) |-> MkTag(layout[i][j], payload)]]]

\* <rdf:RDF><rdf:Description><crs:Contrast>10</crs:Contrast>
\* </rdf:Description></rdf:RDF>
SampleDoc ==
  << [ns |-> "rdf", name |-> "RDF", text |-> None, parent |-> 0],
     [ns |-> "rdf", name |-> "Description", text |-> None, parent |-> 1],
     [ns |-> "crs", name |-> "Contrast", text |-> "10", parent |-> 2] >>

\* the layout of a file whose only tag is the XMP tag
LoneXmp == << <<"XMP-bytes">> >>

\* ------------------------------------------------------------- state
VARIABLES
  entry,            \* "main": the program entry; "parse": parse_xmp alone
  file,             \* the file at file_path
  pc,               \* the statement about to run
  fileOpen,         \* the TiffFile handle is open
  ti,               \* the tag the scan is at
  xmp_data,         \* extract_editing_metadata's xmp_data
  xmp_bytes,        \* parse_xmp's argument
  root,             \* the parsed document, <<>> before it is parsed
  descs,            \* the elements the outer loop iterates over
  di,               \* the outer loop's position in descs
  editing_params,   \* parse_xmp's dict
  parse_ret,        \* what parse_xmp returned
  retval,           \* the value a return statement is carrying out of `with`
  editing_metadata, \* what extract_editing_metadata returned
  exc,              \* the exception in flight, "" when there is none
  stdout,           \* the lines printed
  parseCalls        \* calls of parse_xmp made so far

vars == << entry, file, pc, fileOpen, ti, xmp_data, xmp_bytes, root, descs,
           di, editing_params, parse_ret, retval, editing_metadata, exc,
           stdout, parseCalls >>

parseVars == << root, descs, di, editing_params, parse_ret >>
scanVars == << ti, xmp_data >>

InitCommon ==
  /\ fileOpen = FALSE
  /\ ti = 0
  /\ xmp_data = NoData
  /\ root = <<>>
  /\ descs = <<>>
  /\ di = 0
  /\ editing_params = <<>>
  /\ parse_ret = PyNone
  /\ retval = PyNone
  /\ editing_metadata = PyNone
  /\ exc = ""
  /\ stdout = <<>>

\* the program entry, on a file that cannot be opened or on a file of some
\* layout; its XMP payload is malformed or holds SampleDoc, and a file whose
\* only tag is the XMP tag holds any document of up to MaxFileNodes nodes
Init ==
  /\ entry = "main"
  /\ \/ file = [openable |-> FALSE, pages |-> <<>>]
     \/ \E layout \in Layouts :
          \/ file = MkFile(layout, Malformed)
          \/ /\ HasBytes(layout)
             /\ file = MkFile(layout, XmlBytes(SampleDoc))
     \/ \E n \in 1..MaxFileNodes : \E p \in Shapes(n) :
          \E r \in RootLabels : \E l \in [2..n -> FileNodeLabels] :
            /\ LeavesAreLeaves(MkDoc(n, p, r, l))
            /\ file = MkFile(LoneXmp, XmlBytes(MkDoc(n, p, r, l)))
  /\ pc = "main"
  /\ xmp_bytes = NoData
  /\ parseCalls = 0
  /\ InitCommon

\* parse_xmp called on bytes
InitParse ==
  /\ entry = "parse"
  /\ file = [openable |-> FALSE, pages |-> <<>>]
  /\ pc = "decode"
  /\ \/ xmp_bytes = Malformed
     \/ \E n \in 1..MaxNodes : \E p \in Shapes(n) :
          \E r \in RootLabels : \E l \in [2..n -> NodeLabels] :
            /\ LeavesAreLeaves(MkDoc(n, p, r, l))
            /\ xmp_bytes = XmlBytes(MkDoc(n, p, r, l))
  /\ parseCalls = 1
  /\ InitCommon

\* ------------------------------------------------------------ parse_xmp
\* where control goes when parse_xmp returns or raises
AfterParse == IF entry = "main" THEN "return_params" ELSE "parse_done"
AfterRaise == IF entry = "main" THEN "with_exit" ELSE "uncaught"

\* OnParseError as `return None`
OnParseErrorNone == PyNone

\* except ET.ParseError: `return {}`
OnParseError == PyDict(<<>>)

\* xmp_bytes.decode('utf-8', errors='replace')
Decode ==
  /\ pc = "decode"
  /\ IF xmp_bytes.kind = "bytes"
     THEN /\ pc' = "fromstring"
          /\ exc' = exc
     ELSE /\ pc' = AfterRaise
          /\ exc' = "AttributeError"
  /\ UNCHANGED << entry, file, fileOpen, scanVars, xmp_bytes, parseVars,
                  retval, editing_metadata, stdout, parseCalls >>

\* root = ET.fromstring(xmp_str), and the ParseError handler
FromString ==
  /\ pc = "fromstring"
  /\ IF xmp_bytes.wf
     THEN /\ root' = xmp_bytes.doc
          /\ pc' = "findall"
          /\ UNCHANGED << stdout, parse_ret >>
     ELSE /\ stdout' = Append(stdout, <<"Error parsing XMP metadata:", "ParseError">>)
          /\ parse_ret' = OnParseError
          /\ pc' = AfterParse
          /\ root' = root
  /\ UNCHANGED << entry, file, fileOpen, scanVars, xmp_bytes, descs, di,
                  editing_params, retval, editing_metadata, exc, parseCalls >>

\* editing_params = {} and the start of the loop over the descriptions
FindAll ==
  /\ pc = "findall"
  /\ editing_params' = <<>>
  /\ descs' = FindDescriptions(root)
  /\ di' = 1
  /\ pc' = "loop"
  /\ UNCHANGED << entry, file, fileOpen, scanVars, xmp_bytes, root, parse_ret,
                  retval, editing_metadata, exc, stdout, parseCalls >>

\* the inner loop over keys_to_extract, for the description the loop is at
LoopKeys ==
  /\ pc = "loop"
  /\ di <= Len(descs)
  /\ editing_params' = ExtractKeys(root, descs[di], editing_params, 1)
  /\ pc' = "tone"
  /\ UNCHANGED << entry, file, fileOpen, scanVars, xmp_bytes, root, descs, di,
                  parse_ret, retval, editing_metadata, exc, stdout,
                  parseCalls >>

\* the ToneCurve handling that ends the loop body
LoopTone ==
  /\ pc = "tone"
  /\ editing_params' = ExtractToneCurve(root, descs[di], editing_params)
  /\ di' = di + 1
  /\ pc' = "loop"
  /\ UNCHANGED << entry, file, fileOpen, scanVars, xmp_bytes, root, descs,
                  parse_ret, retval, editing_metadata, exc, stdout,
                  parseCalls >>

\* return editing_params
ParseReturn ==
  /\ pc = "loop"
  /\ di > Len(descs)
  /\ parse_ret' = PyDict(editing_params)
  /\ pc' = AfterParse
  /\ UNCHANGED << entry, file, fileOpen, scanVars, xmp_bytes, root, descs, di,
                  editing_params, retval, editing_metadata, exc, stdout,
                  parseCalls >>

NextParse ==
  \/ Decode
  \/ FromString
  \/ FindAll
  \/ LoopKeys
  \/ LoopTone
  \/ ParseReturn

SpecParse == InitParse /\ [][NextParse]_vars

\* ------------------------------------------- extract_editing_metadata
\* editing_metadata = extract_editing_metadata(file_path)
MainCall ==
  /\ pc = "main"
  /\ pc' = "open"
  /\ UNCHANGED << entry, file, fileOpen, scanVars, xmp_bytes, parseVars,
                  retval, editing_metadata, exc, stdout, parseCalls >>

\* with tifffile.TiffFile(file_path) as tif: xmp_data = None
Open ==
  /\ pc = "open"
  /\ IF file.openable
     THEN /\ fileOpen' = TRUE
          /\ xmp_data' = NoData
          /\ pc' = "pages"
          /\ exc' = exc
     ELSE /\ \E e \in {"OSError", "TiffFileError"} : exc' = e
          /\ pc' = "except"
          /\ UNCHANGED << fileOpen, xmp_data >>
  /\ UNCHANGED << entry, file, ti, xmp_bytes, parseVars, retval,
                  editing_metadata, stdout, parseCalls >>

\* tif.pages[0].tags.values(): the tags of the first page
Pages ==
  /\ pc = "pages"
  /\ IF Len(file.pages) = 0
     THEN /\ exc' = "IndexError"
          /\ pc' = "with_exit"
          /\ ti' = ti
     ELSE /\ ti' = 1
          /\ pc' = "scan"
          /\ exc' = exc
  /\ UNCHANGED << entry, file, fileOpen, xmp_data, xmp_bytes, parseVars,
                  retval, editing_metadata, stdout, parseCalls >>

\* ScannedPage as the last page of the file
LastPage(f) == f.pages[Len(f.pages)]

\* the page whose tags the loop scans
ScannedPage(f) == f.pages[1]

\* one iteration of `for tag in ...`: break at the tag named XMP
ScanTag ==
  /\ pc = "scan"
  /\ LET tags == ScannedPage(file)
     IN IF ti > Len(tags)
        THEN /\ pc' = "check"
             /\ UNCHANGED << ti, xmp_data >>
        ELSE IF tags[ti].name = "XMP"
        THEN /\ xmp_data' = tags[ti].value
             /\ pc' = "check"
             /\ ti' = ti
        ELSE /\ ti' = ti + 1
             /\ pc' = "scan"
             /\ xmp_data' = xmp_data
  /\ UNCHANGED << entry, file, fileOpen, xmp_bytes, parseVars, retval,
                  editing_metadata, exc, stdout, parseCalls >>

\* if xmp_data is None: print, return None; else call parse_xmp(xmp_data)
Check ==
  /\ pc = "check"
  /\ IF xmp_data.kind = "none"
     THEN /\ stdout' = Append(stdout, <<"No XMP metadata found in the file.">>)
          /\ retval' = PyNone
          /\ pc' = "with_exit"
          /\ UNCHANGED << xmp_bytes, parseCalls >>
     ELSE /\ xmp_bytes' = xmp_data
          /\ parseCalls' = parseCalls + 1
          /\ pc' = "decode"
          /\ UNCHANGED << stdout, retval >>
  /\ UNCHANGED << entry, file, fileOpen, scanVars, parseVars,
                  editing_metadata, exc >>

\* editing_params = parse_xmp(xmp_data); return editing_params
ReturnParams ==
  /\ pc = "return_params"
  /\ retval' = parse_ret
  /\ pc' = "with_exit"
  /\ UNCHANGED << entry, file, fileOpen, scanVars, xmp_bytes, parseVars,
                  editing_metadata, exc, stdout, parseCalls >>

\* OpenAfterExit without the with statement: an exception skips the close
OpenAfterExitNoWith(raising) == raising

\* whether the handle is open once the with block is left, by a return or
\* (raising) by an exception: __exit__ closes it either way
OpenAfterExit(raising) == FALSE

\* leaving the with block: TiffFile.__exit__ closes the file
WithExit ==
  /\ pc = "with_exit"
  /\ fileOpen' = OpenAfterExit(exc # "")
  /\ pc' = IF exc # "" THEN "except" ELSE "return"
  /\ UNCHANGED << entry, file, scanVars, xmp_bytes, parseVars, retval,
                  editing_metadata, exc, stdout, parseCalls >>

\* except Exception as e: print, return None
Except ==
  /\ pc = "except"
  /\ IF Catches(exc)
     THEN /\ stdout' = Append(stdout, <<"Error extracting editing metadata:", exc>>)
          /\ retval' = PyNone
          /\ exc' = ""
          /\ pc' = "return"
     ELSE /\ pc' = "uncaught"
          /\ UNCHANGED << stdout, retval, exc >>
  /\ UNCHANGED << entry, file, fileOpen, scanVars, xmp_bytes, parseVars,
                  editing_metadata, parseCalls >>

\* the call returns to the program entry
Return ==
  /\ pc = "return"
  /\ editing_metadata' = retval
  /\ pc' = "print"
  /\ UNCHANGED << entry, file, fileOpen, scanVars, xmp_bytes, parseVars,
                  retval, exc, stdout, parseCalls >>

\* -------------------------------------------------------- program entry
\* for key, value in editing_metadata.items(): print(f"{key}: {value}")
ItemLines(m) == [i \in 1..Len(m) |-> <<m[i][1], ": ", m[i][2]>>]

\* what the program entry prints for the result v
MainLines(v) ==
  IF Truthy(v)
  THEN <<(<<"Extracted Editing Metadata:">>)>> \o ItemLines(v.items)
  ELSE <<(<<"No editing metadata could be extracted.">>)>>

MainPrint ==
  /\ pc = "print"
  /\ stdout' = stdout \o MainLines(editing_metadata)
  /\ pc' = "done"
  /\ UNCHANGED << entry, file, fileOpen, scanVars, xmp_bytes, parseVars,
                  retval, editing_metadata, exc, parseCalls >>

Next ==
  \/ MainCall
  \/ Open
  \/ Pages
  \/ ScanTag
  \/ Check
  \/ Decode
  \/ FromString
  \/ FindAll
  \/ LoopKeys
  \/ LoopTone
  \/ ParseReturn
  \/ ReturnParams
  \/ WithExit
  \/ Except
  \/ Return
  \/ MainPrint

Spec == Init /\ [][Next]_vars

\* ------------------------------------------------- reading a document
\* what the claims say of a document, stated on the tree itself
AllowList == {keys_to_extract[i] : i \in 1..Len(keys_to_extract)}

SetMin(S) == CHOOSE x \in S : \A y \in S : x <= y
SetMax(S) == CHOOSE x \in S : \A y \in S : x >= y

\* the document parse_xmp was given, when it is well-formed
InputDoc == xmp_bytes.doc
WellFormedInput == xmp_bytes.kind = "bytes" /\ xmp_bytes.wf

\* parse_xmp has returned a mapping for a well-formed document
Parsed == pc = "parse_done" /\ WellFormedInput
Result == parse_ret.items

\* every rdf:Description element of d, the root included
Descriptions(d) ==
  {i \in 1..Len(d) : d[i].ns = "rdf" /\ d[i].name = "Description"}

\* the crs:key children of element n
CrsChildren(d, n, key) ==
  {i \in 1..Len(d) : d[i].parent = n /\ d[i].ns = "crs" /\ d[i].name = key}

\* the descriptions of the set D that have a crs:key child
Having(d, D, key) == {n \in D : CrsChildren(d, n, key) # {}}

\* the allow-listed keys that name a crs: element of d
KeysIn(d) ==
  AllowList \cap {d[i].name : i \in {j \in 1..Len(d) : d[j].ns = "crs"}}

\* the string stored for element i: its text, "" when it has none
StoredText(d, i) == IF d[i].text = None THEN "" ELSE d[i].text

\* i lies strictly below a
RECURSIVE Below(_, _, _)
Below(d, a, i) ==
  IF d[i].parent = 0 THEN FALSE
  ELSE d[i].parent = a \/ Below(d, a, d[i].parent)

\* the texts of the rdf:li elements below a that have one, in document order
RECURSIVE LiBelow(_, _, _)
LiBelow(d, a, from) ==
  IF from > Len(d) THEN <<>>
  ELSE (IF /\ d[from].ns = "rdf"
           /\ d[from].name = "li"
           /\ d[from].text # None
           /\ Below(d, a, from)
        THEN <<d[from].text>> ELSE <<>>) \o LiBelow(d, a, from + 1)

\* the tone curve of description n: the li texts of its first crs:ToneCurve
\* child, <<>> when it has no such child
ToneCurveOf(d, n) ==
  IF CrsChildren(d, n, "ToneCurve") = {} THEN <<>>
  ELSE LiBelow(d, SetMin(CrsChildren(d, n, "ToneCurve")), 1)

\* ---------------------------------------------------------------- C1
\* C1: at every point during and after parse_xmp, every key of the mapping
\* (the dict being filled and the dict returned) is in keys_to_extract or is
\* "ToneCurve".
C1_KeysAllowListed ==
  /\ DictKeys(editing_params) \subseteq AllowList \cup {"ToneCurve"}
  /\ DictKeys(parse_ret.items) \subseteq AllowList \cup {"ToneCurve"}

\* a description with a crs:Unknown child next to a crs:Contrast child was
\* parsed and only Contrast became a key
C1_Witness ==
  /\ Parsed
  /\ DictKeys(Result) = {"Contrast"}
  /\ \E n \in Descriptions(InputDoc) \ {1} :
       /\ CrsChildren(InputDoc, n, "Unknown") # {}
       /\ CrsChildren(InputDoc, n, "Contrast") # {}

\* ---------------------------------------------------------------- C2
\* C2: when crs:K is a child of several rdf:Description elements, the value
\* of K in the returned mapping is the one read from the last of them in
\* document order, and within that description from its first crs:K child.
C2_LastDescriptionWins ==
  Parsed =>
    \A key \in KeysIn(InputDoc) :
      LET having == Having(InputDoc, Descriptions(InputDoc), key)
      IN Cardinality(having) >= 2 =>
           /\ DictHas(Result, key)
           /\ DictGet(Result, key) =
                StoredText(InputDoc,
                           SetMin(CrsChildren(InputDoc, SetMax(having), key)))

\* Contrast "10" then "25" in two descriptions under the root gave "25"
C2_Witness ==
  /\ Parsed
  /\ InputDoc[1].name = "RDF"
  /\ \E a, b \in Having(InputDoc, Descriptions(InputDoc), "Contrast") :
       /\ a < b
       /\ InputDoc[SetMin(CrsChildren(InputDoc, a, "Contrast"))].text = "10"
       /\ InputDoc[SetMin(CrsChildren(InputDoc, b, "Contrast"))].text = "25"
  /\ DictHas(Result, "Contrast")
  /\ DictGet(Result, "Contrast") = "25"

\* ---------------------------------------------------------------- C3
\* C3: the ToneCurve entry of the returned mapping, when present, is the
\* non-empty sequence of the texts, in document order, of the rdf:li
\* descendants with text under the crs:ToneCurve child of the last processed
\* description that has such texts; when no processed description has a
\* crs:ToneCurve with an rdf:li with text, there is no ToneCurve key.
C3_ToneCurve ==
  Parsed =>
    LET curved == {n \in Descriptions(InputDoc) \ {1} :
                     ToneCurveOf(InputDoc, n) # <<>>}
    IN IF curved = {}
       THEN ~DictHas(Result, "ToneCurve")
       ELSE /\ DictHas(Result, "ToneCurve")
            /\ DictGet(Result, "ToneCurve") # <<>>
            /\ DictGet(Result, "ToneCurve") =
                 ToneCurveOf(InputDoc, SetMax(curved))

\* a tone curve of two points was read, in document order
C3_Witness ==
  /\ Parsed
  /\ DictHas(Result, "ToneCurve")
  /\ DictGet(Result, "ToneCurve") = <<"25", "10">>

\* ---------------------------------------------------------------- C9
\* C9: every rdf:Description element, the root included, is processed: an
\* allow-listed crs: child of any of them is a key of the returned mapping.
C9_EveryDescriptionProcessed ==
  Parsed =>
    \A key \in KeysIn(InputDoc) :
      Having(InputDoc, Descriptions(InputDoc), key) # {}
        => DictHas(Result, key)

\* ---------------------------------------------------------------- C10
\* C10 as stated: every scalar value of the returned mapping is the text of
\* some element of the document, so a crs:K child without text stores
\* nothing.
C10_OnlyElementTexts ==
  Parsed =>
    \A i \in 1..Len(Result) :
      Result[i][1] # "ToneCurve" =>
        \E e \in 1..Len(InputDoc) :
          /\ InputDoc[e].ns = "crs"
          /\ InputDoc[e].name = Result[i][1]
          /\ InputDoc[e].text # None
          /\ InputDoc[e].text = Result[i][2]

\* C10 as amended: the inner loop over one description writes key K exactly
\* when the description has a crs:K child; it stores the text of the first
\* such child, and the empty string when that child has no text; a key
\* without such a child keeps its presence and its value.
C10_WritesWhenChildExists ==
  [][ (pc = "loop" /\ pc' = "tone") =>
        \A key \in KeysIn(root) \cup (AllowList \cap DictKeys(editing_params))
                     \cup (AllowList \cap DictKeys(editing_params')) :
          LET kids == CrsChildren(root, descs[di], key)
          IN IF kids = {}
             THEN /\ DictHas(editing_params', key) = DictHas(editing_params, key)
                  /\ DictHas(editing_params, key) =>
                       DictGet(editing_params', key) = DictGet(editing_params, key)
             ELSE /\ DictHas(editing_params', key)
                  /\ DictGet(editing_params', key) = StoredText(root, SetMin(kids))
    ]_vars

\* Contrast "10" of an earlier description was overwritten by the empty
\* string of a later <crs:Contrast/>
C10_Witness ==
  /\ Parsed
  /\ DictHas(Result, "Contrast")
  /\ DictGet(Result, "Contrast") = ""
  /\ \E a, b \in Descriptions(InputDoc) \ {1} :
       /\ a < b
       /\ \E e \in CrsChildren(InputDoc, a, "Contrast") : InputDoc[e].text = "10"
       /\ \E e \in CrsChildren(InputDoc, b, "Contrast") : InputDoc[e].text = None

\* ----------------------------------------------------- reading a file
\* the file can be opened and has a first page
Readable == file.openable /\ Len(file.pages) >= 1

\* the positions of the tags named XMP on page i
XmpTags(i) ==
  {j \in 1..Len(file.pages[i]) : file.pages[i][j].name = "XMP"}

\* the value of the first XMP tag of the first page
FirstXmp == file.pages[1][SetMin(XmpTags(1))].value

\* extract_editing_metadata has returned to the program entry
Returned == pc \in {"print", "done"}

\* the statements of parse_xmp
InParse == pc \in {"decode", "fromstring", "findall", "loop", "tone"}

\* the diagnostics of extract_editing_metadata and parse_xmp
Diagnostics ==
  { "No XMP metadata found in the file.",
    "Error extracting editing metadata:",
    "Error parsing XMP metadata:" }

\* stdout ends with the lines tail, and only diagnostics come before them
EndsWith(tail) ==
  /\ Len(stdout) >= Len(tail)
  /\ SubSeq(stdout, Len(stdout) - Len(tail) + 1, Len(stdout)) = tail
  /\ \A i \in 1..(Len(stdout) - Len(tail)) : stdout[i][1] \in Diagnostics

\* "Key: Value" for each item of m, in the order of m
KeyValueLines(m) == [i \in 1..Len(m) |-> <<m[i][1], ": ", m[i][2]>>]

\* ---------------------------------------------------------------- C4
\* C4: when the XMP payload is malformed XML, parse_xmp returns an empty
\* mapping and raises nothing, and extract_editing_metadata returns that
\* empty mapping, not None.
C4_MalformedGivesEmptyMapping ==
  (Readable /\ XmpTags(1) # {} /\ FirstXmp = Malformed) =>
    /\ exc = ""
    /\ pc # "uncaught"
    /\ pc \in {"return_params", "with_exit", "return", "print", "done"}
         => parse_ret = PyDict(<<>>)
    /\ Returned => editing_metadata = PyDict(<<>>)

\* a file with a malformed payload was extracted to the empty mapping
C4_Witness ==
  /\ pc = "done"
  /\ Readable /\ XmpTags(1) # {} /\ FirstXmp = Malformed
  /\ editing_metadata = PyDict(<<>>)
  /\ stdout[1] = <<"Error parsing XMP metadata:", "ParseError">>

\* ---------------------------------------------------------------- C5
\* C5: for a readable file whose first page has no tag named XMP the call
\* returns None, raises nothing and never calls parse_xmp, whatever tags the
\* later pages hold.
C5_NoTagGivesNone ==
  (Readable /\ XmpTags(1) = {}) =>
    /\ exc = ""
    /\ pc # "uncaught"
    /\ parseCalls = 0
    /\ Returned => editing_metadata = PyNone

\* None was returned for a file whose second page, not its first, has an
\* XMP tag holding a document
C5_Witness ==
  /\ pc = "done"
  /\ Readable /\ XmpTags(1) = {}
  /\ Len(file.pages) = 2
  /\ \E j \in XmpTags(2) : file.pages[2][j].value.wf
  /\ editing_metadata = PyNone
  /\ parseCalls = 0

\* ---------------------------------------------------------------- C6
\* C6: no exception leaves extract_editing_metadata: when opening fails, the
\* file has no pages or the payload cannot be handled, the call returns None
\* after printing a diagnostic.
C6_NoFailurePropagates ==
  /\ pc # "uncaught"
  /\ (Returned /\ (\/ ~file.openable
                   \/ Len(file.pages) = 0
                   \/ (XmpTags(1) # {} /\ FirstXmp = NotBytes)))
       => /\ editing_metadata = PyNone
          /\ exc = ""
          /\ \E i \in 1..Len(stdout) :
               stdout[i][1] = "Error extracting editing metadata:"

\* None was returned for a file that opens and has no pages
C6_Witness ==
  /\ pc = "done"
  /\ file.openable
  /\ Len(file.pages) = 0
  /\ editing_metadata = PyNone
  /\ stdout[1] = <<"Error extracting editing metadata:", "IndexError">>

\* ---------------------------------------------------------------- C7
\* C7 as stated: the entry prints "No editing metadata could be extracted."
\* when the result is None, and for every mapping, the empty one included,
\* the header and one "Key: Value" line per key in insertion order.
C7_HeaderForEveryMapping ==
  pc = "done" =>
    IF editing_metadata.none
    THEN EndsWith(<<(<<"No editing metadata could be extracted.">>)>>)
    ELSE EndsWith(<<(<<"Extracted Editing Metadata:">>)>>
                    \o KeyValueLines(editing_metadata.items))

\* C7 as amended: the entry prints "No editing metadata could be extracted."
\* when the result is None or the empty mapping, and for a mapping with at
\* least one key the header and one "Key: Value" line per key in insertion
\* order.
C7_HeaderForNonEmptyMapping ==
  pc = "done" =>
    IF editing_metadata.none \/ editing_metadata.items = <<>>
    THEN EndsWith(<<(<<"No editing metadata could be extracted.">>)>>)
    ELSE EndsWith(<<(<<"Extracted Editing Metadata:">>)>>
                    \o KeyValueLines(editing_metadata.items))

\* the empty mapping of a malformed payload was reported as nothing extracted
C7_Witness ==
  /\ pc = "done"
  /\ editing_metadata = PyDict(<<>>)
  /\ stdout = << <<"Error parsing XMP metadata:", "ParseError">>,
                 <<"No editing metadata could be extracted.">> >>

\* ---------------------------------------------------------------- C8
\* C8 as stated: the file handle is already closed when the decoding and
\* parsing of the payload begin, and is closed before the call returns.
C8_ClosedBeforeParse ==
  /\ InParse => ~fileOpen
  /\ pc \in {"except", "return", "print", "done"} => ~fileOpen

\* C8 as amended: the order is open, scan, decode, parse, filter, close,
\* return: the file handle is open from the scan through the decoding and
\* parsing of the payload, and on every exit path (tag found, tag missing,
\* exception) it is closed before the call returns.
C8_OpenDuringParseClosedAtReturn ==
  /\ (InParse \/ pc \in {"pages", "scan", "check", "return_params",
                          "with_exit"}) => fileOpen
  /\ pc \in {"except", "return", "print", "done"} => ~fileOpen

\* the call is about to return a mapping read while the file was open, and
\* the file is closed
C8_Witness ==
  /\ pc = "return"
  /\ ~fileOpen
  /\ parseCalls = 1
  /\ ~retval.none
  /\ retval.items # <<>>

====
